---- MODULE Spec2Model ----
(***************************************************************************)
(* Model of the Zerodha intraday trading bot.                              *)
(*                                                                         *)
(*   zerodha_bot/trading_bot.py   run_trading_loop, place_market_order,    *)
(*                                log_trade, load_predictions,             *)
(*                                load_excluded_stocks                     *)
(*   zerodha_bot/telegram_bot.py  cmd_exclude, cmd_include, load_excluded, *)
(*                                save_excluded                            *)
(*                                                                         *)
(* Prices and balances are whole rupees.  The code stores                  *)
(* target = price * (1 + 0.02) and stop = price * (1 - 0.01) as doubles;   *)
(* the model stores both in hundredths (price * 102, price * 99) and       *)
(* compares 100 * last_price with them.  For whole-rupee prices the        *)
(* doubles compare with a whole-rupee quote exactly as these integers do.  *)
(* The time of day is in seconds since midnight.  Symbols are numbered in  *)
(* ascending order of their names.  journal holds the records this run of  *)
(* the engine has appended to trades.jsonl.                                *)
(***************************************************************************)
EXTENDS Integers, Sequences, FiniteSets, TLC

VARIABLES
    symbols_to_trade,   \* list returned by load_predictions()
    excluded_stocks,    \* set returned by load_excluded_stocks() at start-up
    open_trades,        \* the Position Book (dict, in insertion order)
    cycle_count,
    max_cycles,         \* {} for None, {n} for the integer n
    poll_seconds,
    dry_run,
    clock,              \* wall clock, seconds since midnight
    now,                \* current_time sampled at the top of the cycle
    wallet,             \* running wallet of the cycle
    pc,                 \* position of the loop
    idx,                \* index of the for loop in progress
    snapshot,           \* list(open_trades.items()) of the exit pass
    journal,            \* logs/trades.jsonl, one record per line
    exclFile,           \* excluded.json, the persisted exclusion store
    fileAtCycleStart,   \* what a read of excluded.json gave as the cycle began
    chat,               \* the handler each telebot worker thread is running
    balance,            \* balance fetched at the top of the cycle
    spent,              \* notional of the BUY orders accepted in the cycle
    orders,             \* orders submitted in the cycle, per symbol and side
    broker,             \* per symbol, BUY minus SELL orders kite accepted
    last                \* what the last step of the loop did

vars == << symbols_to_trade, excluded_stocks, open_trades, cycle_count,
           max_cycles, poll_seconds, dry_run, clock, now, wallet, pc, idx,
           snapshot, journal, exclFile, fileAtCycleStart, balance, spent,
           orders, broker, last, chat >>

----------------------------------------------------------------------------
(* Bounds of the model *)

MaxCycles == 2

Symbols == {1, 2}

Prices == {0, 99, 100, 102}

Balances == {399}

\* the "stocks" lists predictions.json may hold: any order, with duplicates
RawLists ==
    {<< >>} \cup { << a >> : a \in Symbols }
            \cup { << a, b >> : a \in Symbols, b \in Symbols }

----------------------------------------------------------------------------
(* Program constants *)

PROFIT_TARGET == 2

STOP_LOSS == 1

OpenTime == 9 * 3600 + 30 * 60

CloseTime == 15 * 3600 + 15 * 60

CutoffTime == 15 * 3600 + 10 * 60

MinIdleSleep == 15

DaySeconds == 24 * 3600

\* <<start of the run, poll_seconds>>: started just before the open with
\* the smallest interval main() allows, and started just before the cutoff
\* with an interval that lands inside / jumps over [15:10, 15:15]
Schedules ==
    { << OpenTime - 10, 5 >>,
      << CutoffTime - 20, 300 >>,
      << CutoffTime - 20, 400 >> }

----------------------------------------------------------------------------
(* Helpers *)

Max(a, b) == IF a >= b THEN a ELSE b

RECURSIVE SortedSeq(_)
SortedSeq(S) ==
    IF S = {} THEN << >>
    ELSE LET m == CHOOSE x \in S : \A y \in S : x <= y
         IN  << m >> \o SortedSeq(S \ {m})

Range(seq) == { seq[i] : i \in 1..Len(seq) }

\* sorted(xs) of a list
RECURSIVE Sorted(_)
Sorted(xs) ==
    IF xs = << >> THEN << >>
    ELSE LET m == CHOOSE x \in Range(xs) : \A y \in Range(xs) : x <= y
             i == CHOOSE k \in 1..Len(xs) : xs[k] = m
         IN  << m >> \o Sorted(SubSeq(xs, 1, i - 1)
                                \o SubSeq(xs, i + 1, Len(xs)))

\* sorted(normalized), the set() dropped from line 49
load_predictions_NoDedup(stocks) == Sorted(stocks)

\* load_predictions(): sorted(set(normalized))
load_predictions(stocks) == SortedSeq(Range(stocks))

(* excluded.json: valid JSON holding the list "stocks", or a file that    *)
(* json.load() rejects (missing, empty after open(..., "w"), malformed).   *)
StoredList(stocks) == [valid |-> TRUE, stocks |-> stocks]

Unreadable == [valid |-> FALSE, stocks |-> << >>]

\* load_excluded_stocks(): the set of the stored symbols, set() on error
load_excluded_stocks(file) ==
    IF file.valid THEN Range(file.stocks) ELSE {}

\* telegram_bot.load_excluded(): the same read, by the operator interface
load_excluded(file) ==
    IF file.valid THEN Range(file.stocks) ELSE {}

\* save_excluded(): {"stocks": sorted(excluded_set)}
save_excluded(excluded_set) == StoredList(SortedSeq(excluded_set))

BookSymbols(book) == { book[i].symbol : i \in 1..Len(book) }

BookGet(book, s) ==
    book[CHOOSE i \in 1..Len(book) : book[i].symbol = s]

\* open_trades[symbol] = {...}: a new key goes last, an existing key keeps
\* its place and gets the new value
BookPut(book, rec) ==
    IF rec.symbol \in BookSymbols(book)
    THEN [i \in 1..Len(book) |->
             IF book[i].symbol = rec.symbol THEN rec ELSE book[i]]
    ELSE Append(book, rec)

\* open_trades.pop(symbol, None)
BookPop(book, s) == SelectSeq(book, LAMBDA r : r.symbol # s)

\* the position sized before the last share was added
NewTrade_ShortQty(symbol, qty, last_price) ==
    [symbol    |-> symbol,
     quantity  |-> qty - 1,
     buy_price |-> last_price,
     target    |-> last_price * (100 + PROFIT_TARGET),
     stop      |-> last_price * (100 - STOP_LOSS)]

NewTrade(symbol, qty, last_price) ==
    [symbol    |-> symbol,
     quantity  |-> qty,
     buy_price |-> last_price,
     target    |-> last_price * (100 + PROFIT_TARGET),
     stop      |-> last_price * (100 - STOP_LOSS)]

TradeRecord(action, symbol, quantity, price) ==
    [action |-> action, symbol |-> symbol,
     quantity |-> quantity, price |-> price]

\* the file opened with "w" instead of "a"
log_trade_Truncate(file, action, symbol, quantity, price) ==
    << TradeRecord(action, symbol, quantity, price) >>

\* log_trade(): one line appended to trades.jsonl
log_trade(file, action, symbol, quantity, price) ==
    Append(file, TradeRecord(action, symbol, quantity, price))

\* the upper end of the window dropped from line 120
InWindow_NoClose(t) == OpenTime <= t

InWindow(t) == OpenTime <= t /\ t <= CloseTime

\* the exclusion test dropped from line 129
SkipEntry_NoExclusion(symbol, excluded, book) ==
    symbol \in BookSymbols(book)

\* the open-position test dropped from line 129
SkipEntry_NoOpenTest(symbol, excluded, book) ==
    symbol \in excluded

SkipEntry(symbol, excluded, book) ==
    symbol \in excluded \/ symbol \in BookSymbols(book)

Unaffordable(w, last_price) == w < last_price \/ last_price <= 0

\* the quotient rounded up instead of down
OrderQty_RoundUp(w, last_price) == (w + last_price - 1) \div last_price

OrderQty(w, last_price) == w \div last_price

WalletAfterBuy(w, qty, last_price) == w - qty * last_price

\* the price comparisons made strict
ShouldExit_Strict(last_price, target, stop, current_time) ==
    \/ 100 * last_price > target
    \/ 100 * last_price < stop
    \/ current_time >= CutoffTime

\* the end-of-day test dropped from line 181
ShouldExit_NoCutoff(last_price, target, stop, current_time) ==
    \/ 100 * last_price >= target
    \/ 100 * last_price <= stop

ShouldExit(last_price, target, stop, current_time) ==
    \/ 100 * last_price >= target
    \/ 100 * last_price <= stop
    \/ current_time >= CutoffTime

\* place_market_order(): in dry-run mode the call returns a mock id and
\* cannot fail; otherwise kite.place_order() returns or raises
OrderOutcomes(dry) == IF dry THEN {"ok"} ELSE {"ok", "fail"}

\* the dry_run test dropped from line 89
LiveCall_Always(dry) == TRUE

\* place_market_order(): whether kite.place_order() is called
LiveCall(dry) == ~dry

\* place_market_order(): the order id returned; kite's ids are opaque
OrderId(dry, transaction_type, symbol, t) ==
    IF dry THEN << "dry-run", transaction_type, symbol, t >>
    ELSE << "kite" >>

\* kite's books after an accepted order; a dry run never reaches kite
BrokerAfter(b, dry, symbol, delta) ==
    IF LiveCall(dry) THEN [b EXCEPT ![symbol] = @ + delta] ELSE b

\* log_trade(): the append returns or raises
LogOutcomes == {"ok", "fail"}

\* an exception escaping the loop instead of being caught
AfterError_Propagate(p) == "done"

\* except Exception: logger.error(...), then the next iteration
AfterError(p) == p

NoOrders == [s \in Symbols |-> [BUY |-> 0, SELL |-> 0]]

Submitted(o, symbol, side) == [o EXCEPT ![symbol][side] = @ + 1]

Side(op) == IF op = "entry" THEN "BUY" ELSE "SELL"

NoEvent ==
    [op |-> "none", symbol |-> 0, quote |-> "none", price |-> 0,
     order |-> "none", qty |-> 0, log |-> "none", wallet |-> 0,
     live |-> FALSE, order_id |-> << >>]

Event(op, symbol, quote, price, order, qty, log, w) ==
    [op |-> op, symbol |-> symbol, quote |-> quote, price |-> price,
     order |-> order, qty |-> qty, log |-> log, wallet |-> w,
     live |-> (order # "none" /\ LiveCall(dry_run)),
     order_id |-> IF order = "ok"
                  THEN OrderId(dry_run, Side(op), symbol, clock)
                  ELSE << >>]

----------------------------------------------------------------------------
\* TeleBot(TELEGRAM_TOKEN) runs its handlers on a pool of worker threads
Workers == {"worker-a", "worker-b"}

Idle == [pc |-> "idle", command |-> "none", symbol |-> 0, excluded |-> {}]

NoHandlers == [w \in Workers |-> Idle]

(* Initial state: run_trading_loop() up to line 114 *)

Init ==
    /\ exclFile \in { save_excluded(S) : S \in SUBSET Symbols }
    /\ \E stocks \in RawLists :
           symbols_to_trade = load_predictions(stocks)
    /\ excluded_stocks = load_excluded_stocks(exclFile)
    /\ open_trades = << >>
    /\ cycle_count = 0
    /\ max_cycles \in {{}, {1}, {MaxCycles - 1}}
    /\ \E sch \in Schedules :
           /\ clock = sch[1]
           /\ poll_seconds = sch[2]
    /\ dry_run \in BOOLEAN
    /\ now = 0
    /\ wallet = 0
    /\ pc = "loop"
    /\ idx = 1
    /\ snapshot = << >>
    /\ journal = << >>
    /\ fileAtCycleStart = load_excluded_stocks(exclFile)
    /\ balance = 0
    /\ spent = 0
    /\ orders = NoOrders
    /\ broker = [s \in Symbols |-> 0]
    /\ last = NoEvent
    /\ chat = NoHandlers

----------------------------------------------------------------------------
(* Top of the while loop: lines 115-126 *)

CycleStart ==
    /\ pc = "loop"
    /\ cycle_count < MaxCycles
    /\ cycle_count' = cycle_count + 1
    /\ now' = clock
    /\ fileAtCycleStart' = load_excluded_stocks(exclFile)
    /\ spent' = 0
    /\ orders' = NoOrders
    /\ last' = NoEvent
    /\ IF InWindow(clock)
       THEN /\ \E m \in Balances \cup {0} :
                  /\ wallet' = m
                  /\ balance' = m
            /\ pc' = "entry"
            /\ idx' = 1
       ELSE /\ pc' = "sleep"
            /\ UNCHANGED << wallet, balance, idx >>
    /\ UNCHANGED << chat, symbols_to_trade, excluded_stocks, open_trades,
                    max_cycles, poll_seconds, dry_run, clock, snapshot,
                    journal, exclFile, broker >>

(* One iteration of the entry pass: lines 128-166 *)

EntryStep ==
    /\ pc = "entry"
    /\ idx <= Len(symbols_to_trade)
    /\ idx' = idx + 1
    /\ LET symbol == symbols_to_trade[idx] IN
       IF SkipEntry(symbol, excluded_stocks, open_trades)
       THEN /\ last' = Event("entry", symbol, "none", 0, "none", 0, "none",
                             wallet)
            /\ pc' = pc
            /\ UNCHANGED << open_trades, wallet, journal, spent, orders,
                            broker >>
       ELSE
         \/ \* kite.ltp() raises
            /\ last' = Event("entry", symbol, "fail", 0, "none", 0, "none",
                             wallet)
            /\ pc' = AfterError(pc)
            /\ UNCHANGED << open_trades, wallet, journal, spent, orders,
                            broker >>
         \/ \E last_price \in Prices :
              IF Unaffordable(wallet, last_price)
                 \/ OrderQty(wallet, last_price) < 1
              THEN /\ last' = Event("entry", symbol, "ok", last_price,
                                    "none", 0, "none", wallet)
                   /\ pc' = pc
                   /\ UNCHANGED << open_trades, wallet, journal, spent,
                                   orders, broker >>
              ELSE
                LET qty == OrderQty(wallet, last_price) IN
                \E order \in OrderOutcomes(dry_run) :
                  /\ orders' = Submitted(orders, symbol, "BUY")
                  /\ IF order = "fail"
                     THEN /\ last' = Event("entry", symbol, "ok", last_price,
                                           "fail", qty, "none", wallet)
                          /\ pc' = AfterError(pc)
                          /\ UNCHANGED << open_trades, wallet, journal,
                                          spent, broker >>
                     ELSE
                       \E log \in LogOutcomes :
                         /\ last' = Event("entry", symbol, "ok", last_price,
                                          "ok", qty, log, wallet)
                         /\ spent' = spent + qty * last_price
                         /\ broker' = BrokerAfter(broker, dry_run, symbol, 1)
                         /\ IF log = "ok"
                            THEN /\ journal' = log_trade(journal, "BUY",
                                        symbol, qty, last_price)
                                 /\ open_trades' = BookPut(open_trades,
                                        NewTrade(symbol, qty, last_price))
                                 /\ wallet' = WalletAfterBuy(wallet, qty,
                                                             last_price)
                                 /\ pc' = pc
                            ELSE /\ pc' = AfterError(pc)
                                 /\ UNCHANGED << open_trades, wallet,
                                                 journal >>
    /\ UNCHANGED << chat, symbols_to_trade, excluded_stocks, cycle_count,
                    max_cycles, poll_seconds, dry_run, clock, now,
                    snapshot, exclFile, fileAtCycleStart, balance >>

(* End of the entry pass; list(open_trades.items()) at line 168 *)

EntryDone ==
    /\ pc = "entry"
    /\ idx > Len(symbols_to_trade)
    /\ pc' = "exit"
    /\ idx' = 1
    /\ snapshot' = open_trades
    /\ last' = NoEvent
    /\ UNCHANGED << chat, symbols_to_trade, excluded_stocks, open_trades,
                    cycle_count, max_cycles, poll_seconds, dry_run, clock,
                    now, wallet, journal, exclFile, fileAtCycleStart,
                    balance, spent, orders, broker >>

(* One iteration of the exit pass: lines 168-198 *)

ExitStep ==
    /\ pc = "exit"
    /\ idx <= Len(snapshot)
    /\ idx' = idx + 1
    /\ LET trade_info == snapshot[idx]
           symbol     == trade_info.symbol
           qty        == trade_info.quantity
       IN
         \/ \* kite.ltp() raises
            /\ last' = Event("exit", symbol, "fail", 0, "none", 0, "none",
                             wallet)
            /\ pc' = AfterError(pc)
            /\ UNCHANGED << open_trades, journal, orders, broker >>
         \/ \E last_price \in Prices :
              IF ~ShouldExit(last_price, trade_info.target, trade_info.stop,
                             now)
              THEN /\ last' = Event("exit", symbol, "ok", last_price,
                                    "none", 0, "none", wallet)
                   /\ pc' = pc
                   /\ UNCHANGED << open_trades, journal, orders, broker >>
              ELSE
                \E order \in OrderOutcomes(dry_run) :
                  /\ orders' = Submitted(orders, symbol, "SELL")
                  /\ open_trades' = BookPop(open_trades, symbol)
                  /\ IF order = "fail"
                     THEN /\ last' = Event("exit", symbol, "ok", last_price,
                                           "fail", qty, "none", wallet)
                          /\ pc' = AfterError(pc)
                          /\ UNCHANGED << journal, broker >>
                     ELSE
                       \E log \in LogOutcomes :
                         /\ last' = Event("exit", symbol, "ok", last_price,
                                          "ok", qty, log, wallet)
                         /\ broker' = BrokerAfter(broker, dry_run, symbol,
                                                  -1)
                         /\ IF log = "ok"
                            THEN /\ journal' = log_trade(journal, "SELL",
                                        symbol, qty, last_price)
                                 /\ pc' = pc
                            ELSE /\ journal' = journal
                                 /\ pc' = AfterError(pc)
    /\ UNCHANGED << chat, symbols_to_trade, excluded_stocks, cycle_count,
                    max_cycles, poll_seconds, dry_run, clock, now, wallet,
                    snapshot, exclFile, fileAtCycleStart, balance, spent >>

(* End of the exit pass *)

ExitDone ==
    /\ pc = "exit"
    /\ idx > Len(snapshot)
    /\ pc' = "sleep"
    /\ last' = NoEvent
    /\ UNCHANGED << chat, symbols_to_trade, excluded_stocks, open_trades,
                    cycle_count, max_cycles, poll_seconds, dry_run, clock,
                    now, wallet, idx, snapshot, journal, exclFile,
                    fileAtCycleStart, balance, spent, orders, broker >>

(* time.sleep() and the max_cycles test: lines 200-206 *)

SleepSeconds(current_time, poll) ==
    IF InWindow(current_time) THEN poll ELSE Max(MinIdleSleep, poll)

\* ">" written for ">=" at line 204
LoopExit_Late(count, limit) == \E n \in limit : count > n

LoopExit(count, limit) == \E n \in limit : count >= n

Sleep ==
    /\ pc = "sleep"
    /\ clock' = (clock + SleepSeconds(now, poll_seconds)) % DaySeconds
    /\ pc' = IF LoopExit(cycle_count, max_cycles) THEN "done" ELSE "loop"
    /\ last' = NoEvent
    /\ UNCHANGED << chat, symbols_to_trade, excluded_stocks, open_trades,
                    cycle_count, max_cycles, poll_seconds, dry_run, now,
                    wallet, idx, snapshot, journal, exclFile,
                    fileAtCycleStart, balance, spent, orders, broker >>

----------------------------------------------------------------------------
(* Operator interface: telegram_bot.py *)

cmd_exclude ==
    /\ \E symbol \in Symbols :
         LET excluded == load_excluded(exclFile) IN
         /\ symbol \notin excluded
         /\ exclFile' = save_excluded(excluded \cup {symbol})
    /\ UNCHANGED << chat, symbols_to_trade, excluded_stocks, open_trades,
                    cycle_count, max_cycles, poll_seconds, dry_run, clock,
                    now, wallet, pc, idx, snapshot, journal,
                    fileAtCycleStart, balance, spent, orders, broker,
                    last >>

cmd_include ==
    /\ \E symbol \in Symbols :
         LET excluded == load_excluded(exclFile) IN
         /\ symbol \in excluded
         /\ exclFile' = save_excluded(excluded \ {symbol})
    /\ UNCHANGED << chat, symbols_to_trade, excluded_stocks, open_trades,
                    cycle_count, max_cycles, poll_seconds, dry_run, clock,
                    now, wallet, pc, idx, snapshot, journal,
                    fileAtCycleStart, balance, spent, orders, broker,
                    last >>

----------------------------------------------------------------------------

Next ==
    \/ CycleStart
    \/ EntryStep
    \/ EntryDone
    \/ ExitStep
    \/ ExitDone
    \/ Sleep

Spec == Init /\ [][Next]_vars

(* The engine together with the operator interface, which runs as a       *)
(* separate process on the same excluded.json.                             *)

InitOps ==
    /\ Init
    /\ max_cycles = {}
    /\ ~dry_run
    /\ poll_seconds = 5

NextOps ==
    \/ Next
    \/ cmd_exclude
    \/ cmd_include

SpecOps == InitOps /\ [][NextOps]_vars

----------------------------------------------------------------------------
(* The operator interface step by step.  Each worker thread runs one       *)
(* handler; a handler touches excluded.json three times: the read in       *)
(* load_excluded(), the open(..., "w") of save_excluded(), which empties   *)
(* the file, and the write of the buffered json.dump() when the with       *)
(* block closes it.  Nothing orders these steps between two handlers.      *)

EngineVars ==
    << symbols_to_trade, excluded_stocks, open_trades, cycle_count,
       max_cycles, poll_seconds, dry_run, clock, now, wallet, pc, idx,
       snapshot, journal, fileAtCycleStart, balance, spent, orders, broker,
       last >>

\* a worker takes a message: lines 110-116 and 127-133
receive ==
    /\ \E w \in Workers, command \in {"exclude", "include"},
          symbol \in Symbols :
         /\ chat[w].pc = "idle"
         /\ chat' = [chat EXCEPT ![w] = [pc |-> "run", command |-> command,
                                         symbol |-> symbol,
                                         excluded |-> {}]]
    /\ UNCHANGED << EngineVars, exclFile >>

\* cmd_exclude, lines 117-122
exclude_load ==
    /\ \E w \in Workers :
         /\ chat[w].pc = "run"
         /\ chat[w].command = "exclude"
         /\ LET excluded == load_excluded(exclFile)
                symbol == chat[w].symbol
            IN  chat' = IF symbol \in excluded
                        THEN [chat EXCEPT ![w].pc = "done"]
                        ELSE [chat EXCEPT ![w].pc = "save",
                                          ![w].excluded =
                                              excluded \cup {symbol}]
    /\ UNCHANGED << EngineVars, exclFile >>

\* cmd_include, lines 134-139
include_load ==
    /\ \E w \in Workers :
         /\ chat[w].pc = "run"
         /\ chat[w].command = "include"
         /\ LET excluded == load_excluded(exclFile)
                symbol == chat[w].symbol
            IN  chat' = IF symbol \notin excluded
                        THEN [chat EXCEPT ![w].pc = "done"]
                        ELSE [chat EXCEPT ![w].pc = "save",
                                          ![w].excluded =
                                              excluded \ {symbol}]
    /\ UNCHANGED << EngineVars, exclFile >>

\* save_excluded, line 35: open(EXCLUDE_FILE, "w") truncates the file
save_open ==
    /\ \E w \in Workers :
         /\ chat[w].pc = "save"
         /\ exclFile' = Unreadable
         /\ chat' = [chat EXCEPT ![w].pc = "dump"]
    /\ UNCHANGED EngineVars

(* The text goes to the file at offset 0.  On a file another handler has   *)
(* filled since this one truncated it, the new text replaces the old one   *)
(* when it is at least as long; a shorter text leaves the old tail behind  *)
(* it, which json.load() rejects.  Which of two lists neither of which     *)
(* contains the other is longer depends on the ticker names.               *)
Written(file, text) ==
    IF ~file.valid \/ Range(file.stocks) \subseteq Range(text.stocks)
    THEN {text}
    ELSE IF Range(text.stocks) \subseteq Range(file.stocks)
         THEN {Unreadable}
         ELSE {text, Unreadable}

\* save_excluded, line 36, and the reply of lines 124 and 141
save_dump ==
    /\ \E w \in Workers :
         /\ chat[w].pc = "dump"
         /\ exclFile' \in Written(exclFile, save_excluded(chat[w].excluded))
         /\ chat' = [chat EXCEPT ![w].pc = "done"]
    /\ UNCHANGED EngineVars

\* the engine is not running; only the operator interface is
InitChat ==
    /\ Init
    /\ symbols_to_trade = << >>
    /\ max_cycles = {}
    /\ dry_run
    /\ poll_seconds = 5

NextChat ==
    \/ receive
    \/ exclude_load
    \/ include_load
    \/ save_open
    \/ save_dump

SpecChat == InitChat /\ [][NextChat]_vars

----------------------------------------------------------------------------
(* Properties *)

IsBuyOf(r, s) == r.action = "BUY" /\ r.symbol = s

IsSellOf(r, s) == r.action = "SELL" /\ r.symbol = s

\* the journal holds a BUY of s that no later SELL of s follows
HasOpenBuy(j, s) ==
    \E i \in 1..Len(j) :
        /\ IsBuyOf(j[i], s)
        /\ \A k \in (i + 1)..Len(j) : ~IsSellOf(j[k], s)

\* the step just taken was an iteration of the entry / exit pass
EntryEvent == last.op = "entry"

ExitEvent == last.op = "exit"

\* the position the last exit iteration looked at
Evaluated == snapshot[idx - 1]

\* C1: a symbol is in the Position Book if and only if the journal holds a
\* BUY record of it that is not followed by a later SELL record of it.
C1_BookMatchesJournal ==
    \A s \in Symbols :
        s \in BookSymbols(open_trades) <=> HasOpenBuy(journal, s)

\* C2: when the exit rule fires and the SELL order placement raises, the
\* position stays in the Position Book with its fields unchanged and no
\* SELL record is appended.
C2_FailedSellKeepsPosition ==
    (ExitEvent /\ last.order = "fail") =>
        /\ last.symbol \in BookSymbols(open_trades)
        /\ BookGet(open_trades, last.symbol) = Evaluated
        /\ HasOpenBuy(journal, last.symbol)

\* C3: an iteration of the entry pass inserts a position for its symbol if
\* and only if the BUY order placement of that iteration reported success.
C3_PositionIffBuySucceeded ==
    [][ (pc = "entry" /\ idx <= Len(symbols_to_trade) /\ idx' = idx + 1) =>
            LET s == symbols_to_trade[idx] IN
            ( s \notin BookSymbols(open_trades)
              /\ s \in BookSymbols(open_trades') )
            <=> (last'.order = "ok") ]_vars

C5_FlatAfterClose ==
    clock > CloseTime => open_trades = << >>

\* C5 amended: a position evaluated, with a fetched quote, in a cycle whose
\* time is at or after 15:10 has a SELL order placed whatever the price,
\* leaves the Position Book in that cycle, and that cycle is inside the
\* window.
C5_ForcedExitAtCutoff ==
    (ExitEvent /\ last.quote = "ok" /\ now >= CutoffTime) =>
        /\ last.order # "none"
        /\ last.symbol \notin BookSymbols(open_trades)
        /\ now <= CloseTime

\* a forced exit whose price is strictly between stop and target
C5_Witness ==
    /\ ExitEvent
    /\ last.order = "ok"
    /\ now >= CutoffTime
    /\ 100 * last.price < Evaluated.target
    /\ 100 * last.price > Evaluated.stop

\* C6: for a symbol of the Exclusion Set the entry pass places no BUY
\* order, journals no BUY record and creates no position.
C6_ExcludedNeverEntered ==
    /\ (EntryEvent /\ last.symbol \in excluded_stocks) =>
           (last.order = "none" /\ last.log = "none")
    /\ \A s \in excluded_stocks :
           /\ s \notin BookSymbols(open_trades)
           /\ \A i \in 1..Len(journal) : ~IsBuyOf(journal[i], s)

\* an excluded symbol of the Prediction List met with a full wallet
C6_Witness ==
    /\ EntryEvent
    /\ last.symbol \in excluded_stocks
    /\ last.wallet \in Balances
    /\ \E i \in 1..Len(symbols_to_trade) : symbols_to_trade[i] = last.symbol

\* C7: no BUY order is placed for a symbol that was in the persisted
\* exclusion store when the cycle began.
C7_FreshExclusion ==
    (EntryEvent /\ last.order # "none") =>
        last.symbol \notin fileAtCycleStart

\* C8: the entry pass places no BUY order for a symbol that is in the
\* Position Book and leaves the book unchanged; the book never holds two
\* positions of one symbol.
C8_NoPyramiding ==
    /\ [](\A i, k \in 1..Len(open_trades) :
             open_trades[i].symbol = open_trades[k].symbol => i = k)
    /\ [][ ( /\ pc = "entry"
             /\ idx <= Len(symbols_to_trade)
             /\ idx' = idx + 1
             /\ symbols_to_trade[idx] \in BookSymbols(open_trades) ) =>
               /\ last'.order = "none"
               /\ open_trades' = open_trades ]_vars

\* an affordable, not excluded candidate that is already open was skipped
C8_Witness ==
    /\ EntryEvent
    /\ last.quote = "none"
    /\ last.symbol \notin excluded_stocks
    /\ last.symbol \in BookSymbols(open_trades)
    /\ last.wallet \in Balances

\* C9: the candidates are in ascending order, a successful BUY decrements
\* the running wallet by quantity * price, the running wallet is never
\* negative, and the notional of the BUY orders accepted in a cycle never
\* exceeds the balance fetched at its start.
C9_SequentialCapital ==
    /\ \A i, k \in 1..Len(symbols_to_trade) :
           i < k => symbols_to_trade[i] < symbols_to_trade[k]
    /\ wallet >= 0
    /\ spent <= balance
    /\ (EntryEvent /\ last.order = "ok") =>
           wallet = last.wallet - last.qty * last.price

\* C10: with wallet >= last_price > 0 the BUY order is for exactly
\* floor(wallet / last_price) shares, at least 1; otherwise no BUY order is
\* placed.
C10_OrderSizing ==
    (EntryEvent /\ last.quote = "ok") =>
        IF last.wallet >= last.price /\ last.price > 0
        THEN /\ last.order # "none"
             /\ last.qty >= 1
             /\ last.qty * last.price <= last.wallet
             /\ last.wallet < (last.qty + 1) * last.price
        ELSE last.order = "none"

\* a BUY of one share sized with the running wallet equal to the price
C10_Witness ==
    /\ EntryEvent
    /\ last.order = "ok"
    /\ last.wallet = last.price
    /\ last.qty = 1

\* the iteration just taken hit an error: a quote that could not be
\* fetched, an order that was rejected, a journal line that was not written
Failed(e) == e.quote = "fail" \/ e.order = "fail" \/ e.log = "fail"

\* the latest BUY record of s in the journal
LastBuy(j, s) ==
    j[CHOOSE i \in 1..Len(j) :
        /\ IsBuyOf(j[i], s)
        /\ \A k \in (i + 1)..Len(j) : ~IsBuyOf(j[k], s)]

\* C11: a cycle whose time of day is outside [09:30, 15:15] goes straight
\* to its sleep: no balance, quote or order call, nothing journaled, the
\* Position Book unchanged; the passes run only inside the window.
C11_MarketHoursGating ==
    /\ [](pc \in {"entry", "exit"} => (OpenTime <= now /\ now <= CloseTime))
    /\ [][ (pc = "loop" /\ ~(OpenTime <= clock /\ clock <= CloseTime)) =>
              /\ pc' = "sleep"
              /\ last' = NoEvent
              /\ orders' = NoOrders
              /\ UNCHANGED << journal, open_trades, broker, wallet,
                              balance >> ]_vars

\* a cycle after the close went to sleep with a position still open
C11_Witness ==
    /\ pc = "sleep"
    /\ now > CloseTime
    /\ open_trades # << >>
    /\ cycle_count > 1

\* C12: after an order was executed and its journal line was not written,
\* the loop takes no further step.
C12_JournalFailureStops ==
    [][ ~(last.order = "ok" /\ last.log = "fail") ]_vars

\* C13: an iteration that fails leaves the loop in the same pass at the
\* next symbol, and a pass ends only after its last symbol.
C13_ErrorIsolation ==
    /\ [][ (pc \in {"entry", "exit"} /\ idx' = idx + 1) => pc' = pc ]_vars
    /\ [][ (pc = "entry" /\ pc' # "entry") =>
              (idx = Len(symbols_to_trade) + 1 /\ pc' = "exit") ]_vars
    /\ [][ (pc = "exit" /\ pc' # "exit") =>
              (idx = Len(snapshot) + 1 /\ pc' = "sleep") ]_vars

\* the first of two candidates failed and the second was bought
C13_Witness ==
    /\ EntryEvent
    /\ idx = 3
    /\ last.order = "ok"
    /\ orders[symbols_to_trade[1]].BUY = 1
    /\ symbols_to_trade[1] \notin BookSymbols(open_trades)
    /\ broker[symbols_to_trade[1]] = 0

\* C14: in one cycle at most one BUY and one SELL order is submitted per
\* symbol; after a rejected BUY the symbol has no position.
C14_NoRetryInCycle ==
    /\ \A s \in Symbols : orders[s].BUY <= 1 /\ orders[s].SELL <= 1
    /\ (EntryEvent /\ last.order = "fail") =>
           last.symbol \notin BookSymbols(open_trades)

\* a BUY was rejected and the pass went on past the symbol
C14_Witness ==
    /\ EntryEvent
    /\ last.order = "fail"
    /\ orders[last.symbol].BUY = 1

C16_AppendOnly ==
    [][ IF pc \in {"entry", "exit"} /\ idx' = idx + 1 /\ last'.log = "ok"
        THEN journal' = Append(journal,
                 TradeRecord(Side(last'.op), last'.symbol, last'.qty,
                             last'.price))
        ELSE journal' = journal ]_vars

\* a SELL record written after a BUY record
C16_Witness ==
    /\ Len(journal) >= 2
    /\ journal[1].action = "BUY"
    /\ journal[Len(journal)].action = "SELL"
    /\ ExitEvent
    /\ last.log = "ok"

\* C17: in dry-run mode kite.place_order is never called and every order
\* id is a dry-run one.
C17_DryRunNeverLive ==
    dry_run =>
        /\ ~last.live
        /\ \A s \in Symbols : broker[s] = 0
        /\ last.order = "ok" =>
               (last.order_id[1] = "dry-run" /\ last.order_id # << "kite" >>)

\* a dry-run SELL that was given its id
C17_Witness ==
    /\ dry_run
    /\ ExitEvent
    /\ last.order = "ok"
    /\ last.order_id[1] = "dry-run"

\* C18: in a cycle at or after 15:10 the entry pass sizes and orders as at
\* any other time, and a position opened in that cycle whose exit quote is
\* fetched has its SELL placed and is out of the Position Book in that
\* same cycle.
C18_EntryThenForcedExit ==
    /\ ( /\ EntryEvent
         /\ now >= CutoffTime
         /\ last.quote = "ok"
         /\ last.wallet >= last.price
         /\ last.price > 0 ) => last.order # "none"
    /\ ( /\ pc = "exit"
         /\ now >= CutoffTime ) =>
           \A s \in BookSymbols(open_trades) :
               orders[s].BUY = 1 => s \in BookSymbols(snapshot)
    /\ ( /\ ExitEvent
         /\ now >= CutoffTime
         /\ last.quote = "ok"
         /\ orders[last.symbol].BUY = 1 ) =>
           /\ last.order # "none"
           /\ orders[last.symbol].SELL = 1
           /\ last.symbol \notin BookSymbols(open_trades)

\* a position bought after the cutoff and sold at an unremarkable price in
\* the same cycle
C18_Witness ==
    /\ ExitEvent
    /\ now >= CutoffTime
    /\ last.order = "ok"
    /\ orders[last.symbol].BUY = 1
    /\ 100 * last.price < Evaluated.target
    /\ 100 * last.price > Evaluated.stop

\* C19: a SELL order and its record carry the quantity of the position,
\* which is the quantity of the latest BUY record of the symbol, and the
\* quantity of a position does not change while it is open.
C19_NoPartialExit ==
    /\ [](\A i \in 1..Len(open_trades) :
             /\ HasOpenBuy(journal, open_trades[i].symbol)
             /\ open_trades[i].quantity
                    = LastBuy(journal, open_trades[i].symbol).quantity)
    /\ []((ExitEvent /\ last.order # "none") =>
             /\ last.qty = Evaluated.quantity
             /\ last.qty = LastBuy(journal, last.symbol).quantity
             /\ last.log = "ok" =>
                    /\ journal[Len(journal)].action = "SELL"
                    /\ journal[Len(journal)].quantity = last.qty)
    /\ [][ \A i \in 1..Len(open_trades) : \A k \in 1..Len(open_trades') :
              open_trades[i].symbol = open_trades'[k].symbol =>
                  open_trades[i].quantity = open_trades'[k].quantity ]_vars

\* a journaled SELL of more than one share
C19_Witness ==
    /\ ExitEvent
    /\ last.log = "ok"
    /\ last.qty > 1
    /\ journal[Len(journal)].quantity = last.qty

\* C20: in live mode, for every symbol the BUY orders kite accepted minus
\* the SELL orders it accepted is 1 if the symbol is in the Position Book
\* and 0 otherwise.
C20_BookMatchesBroker ==
    ~dry_run =>
        \A s \in Symbols :
            broker[s] = IF s \in BookSymbols(open_trades) THEN 1 ELSE 0

(* C21 -- operator updates need no locking: however the steps of two chat  *)
(* commands (/exclude or /include) on distinct symbols interleave, once    *)
(* both handlers have returned the stored set reflects both commands (an   *)
(* excluded symbol is in it, an included one is not), and the stored list  *)
(* never holds a symbol twice.                                             *)
Returned(w) == chat[w].pc = "done"

Reflected(w, file) ==
    IF chat[w].command = "exclude"
    THEN chat[w].symbol \in load_excluded(file)
    ELSE chat[w].symbol \notin load_excluded(file)

DuplicateFree(file) ==
    \A i, j \in 1..Len(file.stocks) :
        file.stocks[i] = file.stocks[j] => i = j

DistinctSymbols ==
    \A v, w \in Workers : v # w => chat[v].symbol # chat[w].symbol

C21_NoLostUpdate ==
    /\ DuplicateFree(exclFile)
    /\ (DistinctSymbols /\ \A w \in Workers : Returned(w))
           => \A w \in Workers : Reflected(w, exclFile)


====
